---------------------------- MODULE Spec2Model ----------------------------
(***************************************************************************)
(* Gravity Runner (src/game.js): the run controller, the per-frame tick,   *)
(* the player body, the obstacle generator, the collision detector and     *)
(* the particle emitter.                                                   *)
(*                                                                         *)
(* Lengths, speeds, the score and a particle's life are fixed-point        *)
(* numbers with Unit units per JavaScript 1.0, so that the gravity 0.5,    *)
(* the speed increase 0.0005 and the particle decay 0.02 are integers.     *)
(* Drawing, text contents and CSS classes other than the two               *)
(* screens' "hidden" are not modelled.                                     *)
(***************************************************************************)
EXTENDS Integers, Sequences, FiniteSets, TLC

Unit == 10^4

\* CONFIG (src/game.js:4-31)
CanvasWidth == 800 * Unit
CanvasHeight == 400 * Unit
PlayerSize == 30 * Unit
PlayerX == 150 * Unit
MaxSpeed == 8 * Unit
Gravity == Unit \div 2
ObstacleWidth == 40 * Unit
MinGap == 200 * Unit
MaxGap == 350 * Unit
ObstacleSpeed == 5 * Unit
SpeedIncrease == (5 * Unit) \div 10000
GroundHeight == 50 * Unit
ScoreMultiplier == 1 * Unit

\* Particle constants (src/game.js:245-246, 283)
ParticleLife == 1 * Unit
ParticleDecay == (2 * Unit) \div 100
BurstSize == 15

\* The two planes the player rests on
CeilingPlane == GroundHeight
FloorPlane == CanvasHeight - GroundHeight

(***************************************************************************)
(* Bounds of the model                                                     *)
(***************************************************************************)
\* ticks of one run: no tick runs once the frame counter has reached MaxFrame
MaxFrame == 210
\* input events that take effect (startGame calls and gravity flips) in one
\* behaviour
MaxInputs == 3
\* a flip is delivered only while the frame counter is a multiple of FlipEvery
FlipEvery == 9

\* rectangles handed to collidesWith on its own: corners in 0..MaxCoord,
\* extents in 1..MaxExtent
MaxCoord == 3
MaxExtent == 2
\* frames of a run in the specification that draws the gap over its range
MaxGapFrame == 125

\* Math.random() outcomes: the gap of generateObstacle, an obstacle's height,
\* a burst's particle velocity <<vx, vy>>, and the stored best score at load
GapChoices == {MinGap}
HeightChoices == {150 * Unit}
VelocityChoices == {<<-3 * Unit, 2 * Unit>>}
StoredChoices == {<<>>, <<166>>}
\* the gap over its whole range [minGap, maxGap): both ends and the middle
AllGaps == {MinGap, (MinGap + MaxGap) \div 2, MaxGap - 1}

VARIABLES
    gameState,            \* [isRunning, isPaused, score, highScore, frame]
    player,               \* [x, y, width, height, velocityY, gravity, isOnGround]
    obstacles,            \* sequence of [x, y, width, height, isTop, speed]
    particles,            \* sequence of [x, y, vx, vy, life]
    lastObstacleFrame,
    storage,              \* localStorage item gravityRunnerHighScore: <<>> or <<n>>
    setItemCalls,         \* number of localStorage.setItem calls so far
    gameOverCalls,        \* number of gameOver() calls so far
    startScreenHidden,
    gameOverScreenHidden,
    pending,              \* animation-frame callbacks requested for the next frame
    firing,               \* callbacks of the current frame that have yet to run
    lastEvent,            \* the handler that ran last
    inputs                \* startGame calls and flips performed so far

vars == <<gameState, player, obstacles, particles, lastObstacleFrame, storage,
          setItemCalls, gameOverCalls, startScreenHidden, gameOverScreenHidden,
          pending, firing, lastEvent, inputs>>

(***************************************************************************)
(* Numbers                                                                 *)
(***************************************************************************)
Abs(x) == IF x < 0 THEN -x ELSE x

Sign(x) == IF x > 0 THEN 1 ELSE IF x < 0 THEN -1 ELSE 0

\* Math.floor of a fixed-point number, as an integer
Floor(x) == x \div Unit

\* parseInt(localStorage.getItem(...)) || 0
ParseHighScore(item) == IF item = <<>> THEN 0 ELSE item[1]

(***************************************************************************)
(* Player                                                                  *)
(***************************************************************************)
PlayerNew ==
    [width |-> PlayerSize, height |-> PlayerSize, x |-> PlayerX,
     y |-> GroundHeight, velocityY |-> 0, gravity |-> Gravity, isOnGround |-> TRUE]

\* PlayerFlipGravity leaving the velocity as it is
PlayerFlipGravity_KeepsVelocity(p) ==
    [p EXCEPT !.gravity = -p.gravity]

PlayerFlipGravity(p) ==
    [p EXCEPT !.gravity = -p.gravity, !.velocityY = 0]

\* PlayerUpdate without its two plane checks
PlayerUpdate_NoPlanes(p) ==
    LET v1 == p.velocityY + p.gravity
        v2 == IF Abs(v1) > MaxSpeed THEN Sign(v1) * MaxSpeed ELSE v1
    IN  [p EXCEPT !.y = p.y + v2, !.velocityY = v2]

\* PlayerUpdate without the limit on the fall speed
PlayerUpdate_NoLimit(p) ==
    LET v2 == p.velocityY + p.gravity
        y1 == p.y + v2
        bottom == p.gravity > 0 /\ y1 >= FloorPlane - p.height
        p1 == IF bottom
              THEN [p EXCEPT !.y = FloorPlane - p.height, !.velocityY = 0,
                             !.isOnGround = TRUE]
              ELSE [p EXCEPT !.y = y1, !.velocityY = v2]
        top == p1.gravity < 0 /\ p1.y <= CeilingPlane
    IN  IF top
        THEN [p1 EXCEPT !.y = CeilingPlane, !.velocityY = 0, !.isOnGround = TRUE]
        ELSE p1

\* PlayerUpdate limiting the speed to the sign, the factor maxSpeed forgotten
PlayerUpdate_SlowFall(p) ==
    LET v1 == p.velocityY + p.gravity
        v2 == IF Abs(v1) > MaxSpeed THEN Sign(v1) ELSE v1
        y1 == p.y + v2
        bottom == p.gravity > 0 /\ y1 >= FloorPlane - p.height
        p1 == IF bottom
              THEN [p EXCEPT !.y = FloorPlane - p.height, !.velocityY = 0,
                             !.isOnGround = TRUE]
              ELSE [p EXCEPT !.y = y1, !.velocityY = v2]
        top == p1.gravity < 0 /\ p1.y <= CeilingPlane
    IN  IF top
        THEN [p1 EXCEPT !.y = CeilingPlane, !.velocityY = 0, !.isOnGround = TRUE]
        ELSE p1

PlayerUpdate(p) ==
    LET v1 == p.velocityY + p.gravity
        v2 == IF Abs(v1) > MaxSpeed THEN Sign(v1) * MaxSpeed ELSE v1
        y1 == p.y + v2
        bottom == p.gravity > 0 /\ y1 >= FloorPlane - p.height
        p1 == IF bottom
              THEN [p EXCEPT !.y = FloorPlane - p.height, !.velocityY = 0,
                             !.isOnGround = TRUE]
              ELSE [p EXCEPT !.y = y1, !.velocityY = v2]
        top == p1.gravity < 0 /\ p1.y <= CeilingPlane
    IN  IF top
        THEN [p1 EXCEPT !.y = CeilingPlane, !.velocityY = 0, !.isOnGround = TRUE]
        ELSE p1

PlayerReset(p) ==
    [p EXCEPT !.y = GroundHeight, !.velocityY = 0, !.gravity = Gravity]

(***************************************************************************)
(* Obstacle                                                                *)
(***************************************************************************)
ObstacleNew(x, isTop, height) ==
    [width |-> ObstacleWidth, x |-> x, isTop |-> isTop, height |-> height,
     y |-> IF isTop THEN GroundHeight ELSE CanvasHeight - GroundHeight - height,
     speed |-> ObstacleSpeed]

\* Obstacle.update() without the speed increase
ObstacleUpdate_ConstantSpeed(o) == [o EXCEPT !.x = o.x - o.speed]

ObstacleUpdate(o) ==
    [o EXCEPT !.x = o.x - o.speed, !.speed = o.speed + SpeedIncrease]

\* IsOffScreen testing the left edge
IsOffScreen_LeftEdge(o) == o.x < 0

IsOffScreen(o) == o.x + o.width < 0

\* CollidesWith counting rectangles that touch
CollidesWith_Touching(o, p) ==
    /\ p.x <= o.x + o.width
    /\ p.x + p.width >= o.x
    /\ p.y <= o.y + o.height
    /\ p.y + p.height >= o.y

CollidesWith(o, p) ==
    /\ p.x < o.x + o.width
    /\ p.x + p.width > o.x
    /\ p.y < o.y + o.height
    /\ p.y + p.height > o.y

(***************************************************************************)
(* Particle                                                                *)
(***************************************************************************)
ParticleNew(x, y, vel) ==
    [x |-> x, y |-> y, vx |-> vel[1], vy |-> vel[2], life |-> ParticleLife]

ParticleUpdate(q) ==
    [q EXCEPT !.x = q.x + q.vx, !.y = q.y + q.vy, !.life = q.life - ParticleDecay]

\* isDead with the comparison made strict
IsDead_Negative(q) == q.life < 0

IsDead(q) == q.life <= 0


(***************************************************************************)
(* The program's state as one record, so that a handler is the composition *)
(* of the functions it calls.                                              *)
(***************************************************************************)
World ==
    [gameState |-> gameState, player |-> player, obstacles |-> obstacles,
     particles |-> particles, lastObstacleFrame |-> lastObstacleFrame,
     storage |-> storage, setItemCalls |-> setItemCalls,
     gameOverCalls |-> gameOverCalls, startScreenHidden |-> startScreenHidden,
     gameOverScreenHidden |-> gameOverScreenHidden, pending |-> pending]

\* createParticles(x, y): BurstSize particles pushed at the end
CreateParticles(w, x, y, vel) ==
    [w EXCEPT !.particles = @ \o [i \in 1..BurstSize |-> ParticleNew(x, y, vel)]]

\* player.flipGravity(): the flip, then the burst at the player's center
FlipGravity(w, vel) ==
    CreateParticles([w EXCEPT !.player = PlayerFlipGravity(@)],
                    w.player.x + w.player.width \div 2,
                    w.player.y + w.player.height \div 2, vel)

\* generateObstacle(): gap, isTop and height are the draws of Math.random()
\* generateObstacle without the record of the frame of the spawn
GenerateObstacle_KeepsLastFrame(w, gap, isTop, height) ==
    IF (w.gameState.frame - w.lastObstacleFrame) * ObstacleSpeed > gap
    THEN [w EXCEPT !.obstacles = Append(@, ObstacleNew(CanvasWidth, isTop, height))]
    ELSE w

\* generateObstacle spawning as soon as the frame count reaches gap / speed
GenerateObstacle_AtLeast(w, gap, isTop, height) ==
    IF (w.gameState.frame - w.lastObstacleFrame) * ObstacleSpeed >= gap
    THEN [w EXCEPT !.obstacles = Append(@, ObstacleNew(CanvasWidth, isTop, height)),
                   !.lastObstacleFrame = w.gameState.frame]
    ELSE w

GenerateObstacle(w, gap, isTop, height) ==
    IF (w.gameState.frame - w.lastObstacleFrame) * ObstacleSpeed > gap
    THEN [w EXCEPT !.obstacles = Append(@, ObstacleNew(CanvasWidth, isTop, height)),
                   !.lastObstacleFrame = w.gameState.frame]
    ELSE w

\* GameOver comparing with >= instead of >
GameOver_AtLeast(w) ==
    LET finalScore == Floor(w.gameState.score)
        w1 == [w EXCEPT !.gameState.isRunning = FALSE,
                        !.gameOverCalls = @ + 1,
                        !.gameOverScreenHidden = FALSE]
    IN  IF finalScore >= w.gameState.highScore
        THEN [w1 EXCEPT !.gameState.highScore = finalScore,
                        !.storage = <<finalScore>>,
                        !.setItemCalls = @ + 1]
        ELSE w1

\* gameOver()
GameOver(w) ==
    LET finalScore == Floor(w.gameState.score)
        w1 == [w EXCEPT !.gameState.isRunning = FALSE,
                        !.gameOverCalls = @ + 1,
                        !.gameOverScreenHidden = FALSE]
    IN  IF finalScore > w.gameState.highScore
        THEN [w1 EXCEPT !.gameState.highScore = finalScore,
                        !.storage = <<finalScore>>,
                        !.setItemCalls = @ + 1]
        ELSE w1

\* checkCollisions(): the scan from obstacle i on; the first hit ends the scan
RECURSIVE CheckFrom(_, _)
CheckFrom(w, i) ==
    IF i > Len(w.obstacles) THEN w
    ELSE IF CollidesWith(w.obstacles[i], w.player) THEN GameOver(w)
    ELSE CheckFrom(w, i + 1)

\* CheckCollisions skipping the oldest obstacle
CheckCollisions_SkipFirst(w) == CheckFrom(w, 2)

CheckCollisions(w) == CheckFrom(w, 1)

\* UpdateScore adding the multiplier twice
UpdateScore_Twice(w) == [w EXCEPT !.gameState.score = @ + 2 * ScoreMultiplier]

\* updateScore()
UpdateScore(w) == [w EXCEPT !.gameState.score = @ + ScoreMultiplier]

\* updateObstacles(): every obstacle is updated once, the off-screen ones are
\* spliced out, the order of the others is kept
UpdateObstacles(obs) ==
    LET moved == [i \in 1..Len(obs) |-> ObstacleUpdate(obs[i])]
        Live(o) == ~IsOffScreen(o)
    IN  SelectSeq(moved, Live)

\* updateParticles()
UpdateParticles(ps) ==
    LET moved == [i \in 1..Len(ps) |-> ParticleUpdate(ps[i])]
        Alive(q) == ~IsDead(q)
    IN  SelectSeq(moved, Alive)

\* GameLoop without the isRunning check of its first line
GameLoop_NoGuard(w, gap, isTop, height) ==
    LET w1 == [w EXCEPT !.player = PlayerUpdate(@),
                        !.obstacles = UpdateObstacles(@),
                        !.particles = UpdateParticles(@)]
        w2 == GenerateObstacle(w1, gap, isTop, height)
        w3 == UpdateScore(w2)
        w4 == CheckCollisions(w3)
    IN  [w4 EXCEPT !.gameState.frame = @ + 1, !.pending = @ + 1]

\* gameLoop(): one tick; requestAnimationFrame adds one pending callback
GameLoop(w, gap, isTop, height) ==
    IF ~w.gameState.isRunning THEN w
    ELSE LET w1 == [w EXCEPT !.player = PlayerUpdate(@),
                             !.obstacles = UpdateObstacles(@),
                             !.particles = UpdateParticles(@)]
             w2 == GenerateObstacle(w1, gap, isTop, height)
             w3 == UpdateScore(w2)
             w4 == CheckCollisions(w3)
         IN  [w4 EXCEPT !.gameState.frame = @ + 1, !.pending = @ + 1]

\* StartGameReset leaving the particle collection as it is
StartGameReset_KeepsParticles(w) ==
    [w EXCEPT !.startScreenHidden = TRUE,
              !.gameState.isRunning = TRUE,
              !.gameState.score = 0,
              !.gameState.frame = 0,
              !.obstacles = <<>>,
              !.lastObstacleFrame = 0,
              !.player = PlayerReset(@)]

\* startGame() up to and including player.reset()
StartGameReset(w) ==
    [w EXCEPT !.startScreenHidden = TRUE,
              !.gameState.isRunning = TRUE,
              !.gameState.score = 0,
              !.gameState.frame = 0,
              !.obstacles = <<>>,
              !.particles = <<>>,
              !.lastObstacleFrame = 0,
              !.player = PlayerReset(@)]

\* startGame(): the reset, then the first tick, run synchronously
StartGame(w, gap, isTop, height) ==
    GameLoop(StartGameReset(w), gap, isTop, height)

\* restartGame()
RestartGame(w, gap, isTop, height) ==
    StartGame([w EXCEPT !.gameOverScreenHidden = TRUE], gap, isTop, height)

(***************************************************************************)
(* The state machine                                                       *)
(***************************************************************************)
Becomes(w) ==
    /\ gameState' = w.gameState
    /\ player' = w.player
    /\ obstacles' = w.obstacles
    /\ particles' = w.particles
    /\ lastObstacleFrame' = w.lastObstacleFrame
    /\ storage' = w.storage
    /\ setItemCalls' = w.setItemCalls
    /\ gameOverCalls' = w.gameOverCalls
    /\ startScreenHidden' = w.startScreenHidden
    /\ gameOverScreenHidden' = w.gameOverScreenHidden
    /\ pending' = w.pending

\* The draws of one tick: isTop and height are drawn only when the tick spawns
WillSpawn(w, gap) ==
    (w.gameState.frame - w.lastObstacleFrame) * ObstacleSpeed > gap

TopChoices(w, gap) == IF WillSpawn(w, gap) THEN BOOLEAN ELSE {FALSE}

HeightsOf(w, gap) ==
    IF WillSpawn(w, gap) THEN HeightChoices ELSE {100 * Unit}

Init ==
    /\ storage \in StoredChoices
    /\ gameState = [isRunning |-> FALSE, isPaused |-> FALSE, score |-> 0,
                    highScore |-> ParseHighScore(storage), frame |-> 0]
    /\ player = PlayerNew
    /\ obstacles = <<>>
    /\ particles = <<>>
    /\ lastObstacleFrame = 0
    /\ setItemCalls = 0
    /\ gameOverCalls = 0
    /\ startScreenHidden = FALSE
    /\ gameOverScreenHidden = TRUE
    /\ pending = 0
    /\ firing = 0
    /\ lastEvent = "load"
    /\ inputs = 0

\* startBtn click
StartClick ==
    /\ firing = 0
    /\ inputs < MaxInputs
    /\ \E gap \in GapChoices :
         Becomes(StartGame(World, gap, FALSE, 100 * Unit))
    /\ inputs' = inputs + 1
    /\ lastEvent' = "start"
    /\ UNCHANGED firing

\* restartBtn click
RestartClick ==
    /\ firing = 0
    /\ inputs < MaxInputs
    /\ \E gap \in GapChoices :
         Becomes(RestartGame(World, gap, FALSE, 100 * Unit))
    /\ inputs' = inputs + 1
    /\ lastEvent' = "restart"
    /\ UNCHANGED firing

\* FlipInput without the isRunning check of the listeners
FlipInput_NoGuard(name) ==
    /\ firing = 0
    /\ inputs < MaxInputs
    /\ gameState.frame % FlipEvery = 0
    /\ \E vel \in VelocityChoices : Becomes(FlipGravity(World, vel))
    /\ inputs' = inputs + 1
    /\ lastEvent' = name
    /\ UNCHANGED firing

\* the body shared by the keydown (Space) and the canvas click listeners
FlipInput(name) ==
    /\ firing = 0
    /\ IF gameState.isRunning
       THEN /\ inputs < MaxInputs
            /\ gameState.frame % FlipEvery = 0
            /\ \E vel \in VelocityChoices : Becomes(FlipGravity(World, vel))
            /\ inputs' = inputs + 1
       ELSE /\ Becomes(World)
            /\ UNCHANGED inputs
    /\ lastEvent' = name
    /\ UNCHANGED firing

\* document keydown with e.code = 'Space'
KeyDownSpace == FlipInput("keydown")

\* canvas click
CanvasClick == FlipInput("click")

\* one gameLoop callback of an animation frame
Callback(w) ==
    /\ gameState.isRunning => gameState.frame < MaxFrame
    /\ \E gap \in GapChoices :
         \E isTop \in TopChoices(w, gap) :
           \E height \in HeightsOf(w, gap) :
             Becomes(GameLoop(w, gap, isTop, height))
    /\ lastEvent' = "frame"
    /\ UNCHANGED inputs

\* a display refresh: the browser takes the pending callbacks and runs the first
AnimationFrame ==
    /\ firing = 0
    /\ pending > 0
    /\ Callback([World EXCEPT !.pending = 0])
    /\ firing' = pending - 1

\* the next callback of the same refresh
NextCallback ==
    /\ firing > 0
    /\ Callback(World)
    /\ firing' = firing - 1

Next ==
    \/ StartClick
    \/ RestartClick
    \/ KeyDownSpace
    \/ CanvasClick
    \/ AnimationFrame
    \/ NextCallback

Spec == Init /\ [][Next]_vars

(***************************************************************************)
(* The same program with its buttons offered only on their screens: the   *)
(* start button while the start screen is shown, the restart button while  *)
(* the game-over screen is shown.  Every behaviour of SpecOnScreen is a    *)
(* behaviour of Spec.                                                      *)
(***************************************************************************)
StartClickOnScreen == ~startScreenHidden /\ StartClick

RestartClickOnScreen == ~gameOverScreenHidden /\ RestartClick

NextOnScreen ==
    \/ StartClickOnScreen
    \/ RestartClickOnScreen
    \/ KeyDownSpace
    \/ CanvasClick
    \/ AnimationFrame
    \/ NextCallback

SpecOnScreen == Init /\ [][NextOnScreen]_vars

(***************************************************************************)
(* The program with the gap of generateObstacle drawn over its whole       *)
(* range in every tick, over a shorter horizon and without flip inputs.    *)
(***************************************************************************)
CallbackAnyGap(w) ==
    /\ gameState.isRunning => gameState.frame < MaxGapFrame
    /\ \E gap \in AllGaps :
         \E isTop \in TopChoices(w, gap) :
           \E height \in HeightsOf(w, gap) :
             Becomes(GameLoop(w, gap, isTop, height))
    /\ lastEvent' = "frame"
    /\ UNCHANGED inputs

AnimationFrameAnyGap ==
    /\ firing = 0
    /\ pending > 0
    /\ CallbackAnyGap([World EXCEPT !.pending = 0])
    /\ firing' = pending - 1

NextCallbackAnyGap ==
    /\ firing > 0
    /\ CallbackAnyGap(World)
    /\ firing' = firing - 1

NextAnyGap ==
    \/ StartClick
    \/ RestartClick
    \/ AnimationFrameAnyGap
    \/ NextCallbackAnyGap

SpecAnyGap == Init /\ [][NextAnyGap]_vars

(***************************************************************************)
(* collidesWith on its own: checkCollisions run once, while running, on    *)
(* one obstacle rectangle and one player rectangle drawn from small sets.  *)
(***************************************************************************)
Rects ==
    [x : 0..MaxCoord, y : 0..MaxCoord, width : 1..MaxExtent, height : 1..MaxExtent]

InitCollide ==
    /\ \E r \in Rects :
         player = [PlayerNew EXCEPT !.x = r.x, !.y = r.y,
                                    !.width = r.width, !.height = r.height]
    /\ \E r \in Rects :
         obstacles = << [ObstacleNew(r.x, FALSE, r.height)
                           EXCEPT !.y = r.y, !.width = r.width] >>
    /\ gameState = [isRunning |-> TRUE, isPaused |-> FALSE, score |-> 0,
                    highScore |-> 0, frame |-> 0]
    /\ particles = <<>>
    /\ lastObstacleFrame = 0
    /\ storage = <<>>
    /\ setItemCalls = 0
    /\ gameOverCalls = 0
    /\ startScreenHidden = TRUE
    /\ gameOverScreenHidden = TRUE
    /\ pending = 1
    /\ firing = 0
    /\ lastEvent = "load"
    /\ inputs = 0

CheckStep ==
    /\ lastEvent = "load"
    /\ Becomes(CheckCollisions(World))
    /\ lastEvent' = "check"
    /\ UNCHANGED <<firing, inputs>>

SpecCollide == InitCollide /\ [][CheckStep]_vars

(***************************************************************************)
(* Vocabulary of the properties                                            *)
(***************************************************************************)
Idle == ~gameState.isRunning /\ ~startScreenHidden

Over == ~gameState.isRunning /\ startScreenHidden

\* animation-frame callbacks that have been requested and have not run yet
Outstanding == pending + firing

StartCommands == {"start", "restart"}

FlipInputs == {"keydown", "click"}

\* the simulation state: everything a tick or a flip can change
sim == <<gameState, player, obstacles, particles, lastObstacleFrame>>

\* some live obstacle's rectangle strictly overlaps the player's
Overlap(obs, p) == \E i \in 1..Len(obs) : CollidesWith(obs[i], p)

(***************************************************************************)
(* C1: in every reachable state the player's y is within                   *)
(* [ceilingPlane, floorPlane - playerHeight], which is [50, 320].          *)
(***************************************************************************)
C1_PlayerWithinPlanes ==
    /\ CeilingPlane <= player.y
    /\ player.y <= FloorPlane - PlayerSize
    /\ CeilingPlane = 50 * Unit
    /\ FloorPlane - PlayerSize = 320 * Unit

\* a flip has just been performed in mid-air
C1_Witness ==
    /\ lastEvent \in FlipInputs
    /\ gameState.isRunning
    /\ CeilingPlane < player.y
    /\ player.y < FloorPlane - PlayerSize
    /\ particles # <<>>

(***************************************************************************)
(* C2: every tick executed while running adds exactly scoreMultiplier to   *)
(* the score (the tick that detects the fatal collision included), and no  *)
(* tick or flip input changes the score while the run is idle or over.     *)
(***************************************************************************)
C2_ScorePerTick ==
    [][ /\ (gameState.isRunning /\ lastEvent' = "frame")
            => gameState'.score = gameState.score + ScoreMultiplier
        /\ (~gameState.isRunning /\ lastEvent' \notin StartCommands)
            => gameState'.score = gameState.score ]_vars

\* the tick that detected the collision has just run, and has counted
C2_Witness ==
    /\ Over
    /\ lastEvent = "frame"
    /\ pending = 1
    /\ gameState.score = gameState.frame * ScoreMultiplier
    /\ gameState.score > 0

(***************************************************************************)
(* C3: on every running -> over transition, with s = floor(score) and b    *)
(* the best before: if s > b the best becomes s and s is written to        *)
(* storage, otherwise the best is unchanged and nothing is written; the    *)
(* best never decreases and is at least the final score of a finished run. *)
(***************************************************************************)
C3_BestScore ==
    [][ /\ (gameState.isRunning /\ ~gameState'.isRunning) =>
              LET s == Floor(gameState'.score)
                  b == gameState.highScore
              IN  IF s > b
                  THEN /\ gameState'.highScore = s
                       /\ storage' = <<s>>
                       /\ setItemCalls' = setItemCalls + 1
                  ELSE /\ gameState'.highScore = b
                       /\ storage' = storage
                       /\ setItemCalls' = setItemCalls
        /\ gameState'.highScore >= gameState.highScore
        /\ Over' => gameState'.highScore >= Floor(gameState'.score) ]_vars

\* two runs have ended: one set a new best and wrote it, the other did not
C3_Witness ==
    /\ Over
    /\ gameOverCalls = 2
    /\ setItemCalls = 1
    /\ storage = <<gameState.highScore>>

(***************************************************************************)
(* C4 as stated: when the start or restart command completes, score and    *)
(* frame counter are 0, obstacles and particles are empty, the player is   *)
(* at y = groundHeight with velocity 0 and downward gravity, and the best  *)
(* score is unchanged.                                                     *)
(***************************************************************************)
C4_AsStated ==
    [][ lastEvent' \in StartCommands =>
          /\ gameState'.score = 0
          /\ gameState'.frame = 0
          /\ obstacles' = <<>>
          /\ particles' = <<>>
          /\ player'.y = GroundHeight
          /\ player'.velocityY = 0
          /\ player'.gravity = Gravity
          /\ gameState'.highScore = gameState.highScore ]_vars

(***************************************************************************)
(* C4 as amended: the reset of startGame leaves score 0, frame 0, no       *)
(* obstacles, no particles, the player at y = groundHeight with velocity 0 *)
(* and downward gravity, and the best score unchanged; startGame then runs *)
(* the first tick itself, so when the command completes the score is       *)
(* scoreMultiplier, the frame counter is 1, obstacles and particles are    *)
(* empty, and the player is at y = groundHeight + gravity with velocity    *)
(* gravity and downward gravity; the best score is unchanged.              *)
(***************************************************************************)
C4_ResetThenFirstTick ==
    [][ lastEvent' \in StartCommands =>
          LET r == StartGameReset(World)
          IN  /\ r.gameState.score = 0
              /\ r.gameState.frame = 0
              /\ r.obstacles = <<>>
              /\ r.particles = <<>>
              /\ r.player.y = GroundHeight
              /\ r.player.velocityY = 0
              /\ r.player.gravity = Gravity
              /\ r.gameState.highScore = gameState.highScore
              /\ gameState'.isRunning
              /\ gameState'.score = ScoreMultiplier
              /\ gameState'.frame = 1
              /\ obstacles' = <<>>
              /\ particles' = <<>>
              /\ player'.y = GroundHeight + Gravity
              /\ player'.velocityY = Gravity
              /\ player'.gravity = Gravity
              /\ gameState'.highScore = gameState.highScore ]_vars

\* a restart has just completed after a run whose score became the best
C4_Witness ==
    /\ lastEvent = "restart"
    /\ gameOverCalls = 1
    /\ gameState.highScore > 166
    /\ gameState.score = ScoreMultiplier
    /\ particles = <<>>

(***************************************************************************)
(* C5: the run state changes only idle -> running and over -> running on   *)
(* a start or restart command and running -> over on a tick that detects a *)
(* collision; a start or restart command delivered while running is        *)
(* ignored: it resets nothing and starts no other tick loop.               *)
(***************************************************************************)
C5_StartIgnoredWhileRunning ==
    [][ /\ (~gameState.isRunning /\ gameState'.isRunning)
            => lastEvent' \in StartCommands
        /\ (gameState.isRunning /\ ~gameState'.isRunning)
            => lastEvent' = "frame"
        /\ (gameState.isRunning /\ lastEvent' \in StartCommands)
            => UNCHANGED <<sim, pending, firing>> ]_vars

(***************************************************************************)
(* C6: a flip input (Space key or canvas click) received while the run is  *)
(* idle or over changes nothing: gravity, velocity, position, particles,   *)
(* score, frame counter, obstacles and run state stay as they are.         *)
(***************************************************************************)
C6_FlipIgnoredWhenNotRunning ==
    [][ (~gameState.isRunning /\ lastEvent' \in FlipInputs) =>
          UNCHANGED <<sim, storage, setItemCalls, gameOverCalls,
                      startScreenHidden, gameOverScreenHidden, pending, firing>>
      ]_vars

\* a canvas click has just been received after the run ended in mid-flight
C6_Witness ==
    /\ Over
    /\ lastEvent = "click"
    /\ player.gravity < 0
    /\ particles # <<>>

(***************************************************************************)
(* C7: a tick that begins while the run is not running changes nothing     *)
(* and schedules no further tick; once a run is over the simulation state  *)
(* stays as it is until a start or restart command.                        *)
(***************************************************************************)
C7_TickIgnoredWhenNotRunning ==
    [][ /\ (~gameState.isRunning /\ lastEvent' = "frame") =>
              /\ UNCHANGED <<sim, storage, setItemCalls, gameOverCalls,
                             startScreenHidden, gameOverScreenHidden>>
              /\ Outstanding' = Outstanding - 1
        /\ (~gameState.isRunning /\ lastEvent' \notin StartCommands) =>
              UNCHANGED sim ]_vars

\* a callback has run after the run ended and no callback is left
C7_Witness ==
    /\ Over
    /\ lastEvent = "frame"
    /\ Outstanding = 0
    /\ obstacles # <<>>

(***************************************************************************)
(* C8: the tick that moves the run from running to over requests no other  *)
(* animation frame, so no tick callback is pending once the run has ended. *)
(***************************************************************************)
C8_CollisionTickStopsLoop ==
    [][ (gameState.isRunning /\ ~gameState'.isRunning) =>
          Outstanding' = Outstanding - 1 ]_vars

(***************************************************************************)
(* C9: at most one tick callback is pending at any time.                   *)
(***************************************************************************)
C9_OneLoop == Outstanding <= 1

(***************************************************************************)
(* C10: a tick executed while running ends the run (with one gameOver      *)
(* call) exactly when, after its updates, some live obstacle's rectangle   *)
(* strictly overlaps the player's; the run goes from running to over only  *)
(* in such a tick.                                                         *)
(***************************************************************************)
C10_OverIffOverlap ==
    [][ /\ (gameState.isRunning /\ lastEvent' = "frame") =>
              /\ gameState'.isRunning = ~Overlap(obstacles', player')
              /\ gameOverCalls' =
                   gameOverCalls + (IF Overlap(obstacles', player') THEN 1 ELSE 0)
        /\ (gameState.isRunning /\ ~gameState'.isRunning) =>
              /\ lastEvent' = "frame"
              /\ Overlap(obstacles', player') ]_vars

\* a run has just ended on an obstacle met in mid-air
C10_Witness ==
    /\ Over
    /\ lastEvent = "frame"
    /\ pending = 1
    /\ Overlap(obstacles, player)
    /\ CeilingPlane < player.y
    /\ player.y < FloorPlane - PlayerSize

(***************************************************************************)
(* C11: collidesWith is true exactly when the two rectangles overlap       *)
(* strictly on both axes: never when the overlap on an axis is zero        *)
(* (rectangles apart, or touching along an edge or at a corner), always    *)
(* for two identical rectangles of positive extent.                        *)
(***************************************************************************)
Min(a, b) == IF a < b THEN a ELSE b

Max(a, b) == IF a > b THEN a ELSE b

\* the length the two rectangles share on each axis (negative: a gap)
SharedX(o, p) == Min(o.x + o.width, p.x + p.width) - Max(o.x, p.x)

SharedY(o, p) == Min(o.y + o.height, p.y + p.height) - Max(o.y, p.y)

SameRect(o, p) ==
    o.x = p.x /\ o.y = p.y /\ o.width = p.width /\ o.height = p.height

C11_StrictOverlap ==
    LET o == obstacles[1]
        hit == SharedX(o, player) > 0 /\ SharedY(o, player) > 0
    IN  /\ CollidesWith(o, player) <=> hit
        /\ SameRect(o, player) => CollidesWith(o, player)
        /\ lastEvent = "check" => (gameState.isRunning <=> ~hit)

\* checkCollisions has passed over two rectangles that touch along an edge
C11_Witness ==
    /\ lastEvent = "check"
    /\ gameState.isRunning
    /\ SharedX(obstacles[1], player) = 0
    /\ SharedY(obstacles[1], player) > 0

(***************************************************************************)
(* C12 as stated: an obstacle leaves the live set if and only if its right *)
(* edge has scrolled past x = 0: after a step no live obstacle has         *)
(* x + width < 0, and an obstacle whose right edge is still at or right of *)
(* x = 0 is never removed.                                                 *)
(***************************************************************************)
\* where obstacle o is once the step has been taken
Scrolled(o) ==
    IF gameState.isRunning /\ lastEvent' = "frame" THEN ObstacleUpdate(o) ELSE o

Kept(o) == \E j \in 1..Len(obstacles') : obstacles'[j] = o

C12_AsStated ==
    [][ \A i \in 1..Len(obstacles) :
          LET o == Scrolled(obstacles[i])
          IN  Kept(o) <=> (o.x + o.width >= 0) ]_vars

(***************************************************************************)
(* C12 as amended: a tick removes an obstacle from the live set if and     *)
(* only if its right edge has scrolled past x = 0 (the others stay, in     *)
(* their order, followed by the obstacle the tick spawns, if any), so no   *)
(* live obstacle ever has x + width < 0; a start or restart command        *)
(* empties the live set whatever the obstacles' positions.                 *)
(***************************************************************************)
OnScreen(o) == o.x + o.width >= 0

C12_RemovedByTickIffPast ==
    [][ /\ (gameState.isRunning /\ lastEvent' = "frame") =>
              LET moved == [i \in 1..Len(obstacles) |-> ObstacleUpdate(obstacles[i])]
                  stay == SelectSeq(moved, OnScreen)
              IN  \/ obstacles' = stay
                  \/ /\ Len(obstacles') = Len(stay) + 1
                     /\ SubSeq(obstacles', 1, Len(stay)) = stay
                     /\ obstacles'[Len(obstacles')].x = CanvasWidth
        /\ \A i \in 1..Len(obstacles') : OnScreen(obstacles'[i])
        /\ lastEvent' \in StartCommands => obstacles' = <<>> ]_vars

\* a tick has removed the obstacle spawned at frame 41 and kept the four others
C12_Witness ==
    /\ lastEvent = "frame"
    /\ gameState.isRunning
    /\ lastObstacleFrame = 205
    /\ Len(obstacles) = 4

(***************************************************************************)
(* C13: each flip performed negates the gravity and sets the velocity to   *)
(* 0, wherever the player is and however recent the last flip; a second    *)
(* flip restores the gravity sign; the gravity's magnitude is the          *)
(* configured constant in every reachable state.                           *)
(***************************************************************************)
C13_FlipNegatesGravity ==
    [][ /\ (gameState.isRunning /\ lastEvent' \in FlipInputs) =>
              /\ player'.gravity = -player.gravity
              /\ player'.velocityY = 0
              /\ player'.y = player.y
              /\ PlayerFlipGravity(player').gravity = player.gravity
        /\ Abs(player.gravity) = Gravity
        /\ Abs(player'.gravity) = Gravity ]_vars

\* two flips in a row, in mid-air, no tick between them
C13_Witness ==
    /\ lastEvent \in FlipInputs
    /\ gameState.isRunning
    /\ player.gravity = Gravity
    /\ player.velocityY = 0
    /\ CeilingPlane < player.y
    /\ player.y < FloorPlane - PlayerSize
    /\ Len(particles) = 2 * BurstSize
    /\ \A i \in 1..Len(particles) : particles[i].life = ParticleLife

(***************************************************************************)
(* C14: in a run without a flip the player is, from tick 100 on, at        *)
(* y = floorPlane - playerHeight with velocity 0 and the on-ground flag    *)
(* set; in general, once enough flip-free ticks have followed the last     *)
(* reset or flip, the player rests on the plane its gravity points to and  *)
(* stays there.  "Enough" is 42 ticks after the reset and the 50 ticks the *)
(* particles of a flip's burst live: with no particle left, no flip is     *)
(* younger than 50 ticks.                                                  *)
(***************************************************************************)
AtRest ==
    /\ player.y = IF player.gravity > 0 THEN FloorPlane - PlayerSize
                                        ELSE CeilingPlane
    /\ player.velocityY = 0
    /\ player.isOnGround

C14_ComesToRest ==
    /\ (gameState.frame >= 42 /\ particles = <<>>) => AtRest
    /\ (gameState.frame >= 100 /\ particles = <<>> /\ player.gravity > 0)
          => player.y = 320 * Unit

\* the first run, still running after 100 ticks without any flip
C14_Witness ==
    /\ gameState.isRunning
    /\ inputs = 1
    /\ gameState.frame >= 100
    /\ player.y = FloorPlane - PlayerSize
    /\ player.velocityY = 0

(***************************************************************************)
(* C15: in a tick of a run an obstacle is spawned only if the number of    *)
(* frames since the last spawn (or since the start of the run) is greater  *)
(* than gap / obstacleSpeed for a gap of [minGap, maxGap): never when the  *)
(* count is at most 40, always when it is 70 or more, at most one obstacle *)
(* per tick, and consecutive spawns are 41 to 70 ticks apart.              *)
(***************************************************************************)
SinceSpawn == gameState.frame - lastObstacleFrame

\* the obstacles a step added to those that its tick moved and kept
Spawned == Len(obstacles') - Len(UpdateObstacles(obstacles))

C15_SpawnThrottle ==
    [][/\ (gameState.isRunning /\ lastEvent' = "frame") =>
            /\ Spawned \in {0, 1}
            /\ SinceSpawn * ObstacleSpeed <= MinGap => Spawned = 0
            /\ SinceSpawn * ObstacleSpeed >= MaxGap => Spawned = 1
            /\ Spawned = 1 =>
                 /\ \E gap \in MinGap..(MaxGap - 1) :
                      SinceSpawn * ObstacleSpeed > gap
                 /\ SinceSpawn \in 41..70
                 /\ lastObstacleFrame' = gameState.frame
                 /\ obstacles'[Len(obstacles')].x = CanvasWidth
            /\ Spawned = 0 => lastObstacleFrame' = lastObstacleFrame
       /\ lastEvent' \in StartCommands =>
            /\ obstacles' = <<>>
            /\ lastObstacleFrame' = 0
      ]_vars

\* a spawn in the tick with frame 41, the next one 70 ticks later
C15_Witness ==
    /\ lastEvent = "frame"
    /\ gameState.isRunning
    /\ Len(obstacles) = 2
    /\ lastObstacleFrame = 41 + 70
    /\ gameState.frame = lastObstacleFrame + 1
    /\ obstacles[2].x = CanvasWidth
    /\ obstacles[1].x < CanvasWidth - 70 * ObstacleSpeed

(***************************************************************************)
(* C16: a gravity flip performed while running adds exactly 15 particles   *)
(* to the collection, all at the player's center at the moment of the      *)
(* flip; a running tick decreases the life of every particle by the decay  *)
(* rate and keeps exactly those whose life is still above 0, so that after *)
(* every tick no particle has life <= 0 and a particle is discarded within *)
(* ParticleLife / ParticleDecay running ticks.                             *)
(***************************************************************************)
AtCenter(q, p) ==
    /\ q.x = p.x + p.width \div 2
    /\ q.y = p.y + p.height \div 2

\* the particles of ps that a tick keeps
Outlive(ps) == {i \in 1..Len(ps) : ps[i].life - ParticleDecay > 0}

C16_ParticleLifecycle ==
    [][/\ (gameState.isRunning /\ lastEvent' \in FlipInputs) =>
            /\ Len(particles') = Len(particles) + BurstSize
            /\ SubSeq(particles', 1, Len(particles)) = particles
            /\ \A j \in (Len(particles) + 1)..Len(particles') :
                 /\ AtCenter(particles'[j], player)
                 /\ particles'[j].life = ParticleLife
       /\ (gameState.isRunning /\ lastEvent' = "frame") =>
            LET gone == Len(particles) - Len(particles')
            IN  /\ Len(particles') = Cardinality(Outlive(particles))
                /\ \A j \in 1..Len(particles') :
                     /\ j + gone \in Outlive(particles)
                     /\ particles'[j].life
                           = particles[j + gone].life - ParticleDecay
       /\ \A j \in 1..Len(particles') :
            /\ particles'[j].life > 0
            /\ particles'[j].life <= ParticleLife
            /\ particles'[j].life % ParticleDecay = 0
      ]_vars

\* two bursts in flight, the older one in its last tick
C16_Witness ==
    /\ lastEvent = "frame"
    /\ gameState.isRunning
    /\ Len(particles) = 2 * BurstSize
    /\ particles[1].life = ParticleDecay
    /\ particles[2 * BurstSize].life > ParticleDecay

(***************************************************************************)
(* C17: every obstacle is created with the base speed CONFIG.obstacle.speed*)
(* whatever the age of the run, and its own speed grows by speedIncrease   *)
(* in each tick it is live, so of two live obstacles the older one is      *)
(* strictly faster; the base speed itself never changes.                   *)
(***************************************************************************)
\* ticks an obstacle has been live, read off its speed
TicksLive(o) == (o.speed - ObstacleSpeed) \div SpeedIncrease

C17_ObstacleSpeeds ==
    [][/\ (gameState.isRunning /\ lastEvent' = "frame") =>
            LET kept == Len(UpdateObstacles(obstacles))
                gone == Len(obstacles) - kept
            IN  /\ \A j \in 1..kept :
                     obstacles'[j].speed
                       = obstacles[j + gone].speed + SpeedIncrease
                /\ \A j \in (kept + 1)..Len(obstacles') :
                     obstacles'[j].speed = ObstacleSpeed
       /\ \A j \in 1..Len(obstacles') :
            /\ obstacles'[j].speed >= ObstacleSpeed
            /\ obstacles'[j].speed
                 = ObstacleSpeed + TicksLive(obstacles'[j]) * SpeedIncrease
            /\ \A k \in (j + 1)..Len(obstacles') :
                 obstacles'[j].speed > obstacles'[k].speed
      ]_vars

\* late in a run: a fresh obstacle at the base speed behind three older ones
C17_Witness ==
    /\ lastEvent = "frame"
    /\ gameState.isRunning
    /\ gameState.frame > 160
    /\ Len(obstacles) = 4
    /\ obstacles[4].speed = ObstacleSpeed
    /\ obstacles[1].speed > obstacles[2].speed
    /\ obstacles[1].speed = ObstacleSpeed + 123 * SpeedIncrease

(***************************************************************************)
(* C18: in every reachable state |velocityY| <= maxSpeed and the velocity  *)
(* is 0 or has the sign of the gravity, so the player never moves away     *)
(* from the plane its gravity points to; a player that a tick has put on   *)
(* that plane has velocity 0.                                              *)
(***************************************************************************)
\* the player is on the plane its gravity points to
OnGravityPlane(p) ==
    \/ p.gravity > 0 /\ p.y = FloorPlane - p.height
    \/ p.gravity < 0 /\ p.y = CeilingPlane

C18_VelocityBounded ==
    /\ Abs(player.velocityY) <= MaxSpeed
    /\ player.velocityY = 0 \/ Sign(player.velocityY) = Sign(player.gravity)
    /\ OnGravityPlane(player) => player.velocityY = 0

\* rising at the full speed after a flip
C18_Witness ==
    /\ lastEvent = "frame"
    /\ gameState.isRunning
    /\ player.gravity < 0
    /\ player.velocityY = -MaxSpeed
    /\ player.y > CeilingPlane

(***************************************************************************)
(* C19: the on-ground flag reflects contact with a plane: isOnGround is    *)
(* true only if the player's y is ceilingPlane or floorPlane minus the     *)
(* player's height, so it is not true in mid-air after a flip or after a   *)
(* reset followed by ticks.                                                *)
(***************************************************************************)
C19_OnGroundMeansContact ==
    player.isOnGround =>
        player.y \in {CeilingPlane, FloorPlane - player.height}

(***************************************************************************)
(* C20: with the configured values the number of live obstacles never      *)
(* exceeds 5, in any run and across restarts.                              *)
(***************************************************************************)
C20_AtMostFiveObstacles == Len(obstacles) <= 5

\* the fifth obstacle spawned while the first is still on screen
C20_Witness ==
    /\ gameState.isRunning
    /\ Len(obstacles) = 5
    /\ obstacles[5].x = CanvasWidth
    /\ ~IsOffScreen(obstacles[1])

====
